---- MODULE Spec2Model ----
(***************************************************************************)
(* PhaseRunner (src/phaserunner.py): a sequential phase executor.          *)
(*                                                                         *)
(* Python values are modelled by strings: None is "None", the booleans are *)
(* "True" and "False", the integer 19 is "19", and so on.  Python list     *)
(* indexes are kept 0-based where the code computes with them.             *)
(***************************************************************************)
EXTENDS Integers, Sequences, FiniteSets, TLC

\* Largest number of phases registered on the runner.
MaxPhases == 3

None == "None"

\* Phase names handed to add_phase and run_phases.
Names == {"A", "B", "C"}

\* The same, with "a", which differs from "A" only in case.
CaseNames == Names \cup {"a"}

\* A name no phase is ever registered under.
UnknownName == "Z"

\* str.lower() on the names in use.
Lower(s) ==
    CASE s = "A" -> "a"
      [] s = "B" -> "b"
      [] s = "C" -> "c"
      [] s = "Z" -> "z"
      [] OTHER -> s

\* Values that are Python str objects (the others are ints).
StringValues == {"mystring", "other", "y"}

\* The test accepting the integers 0 and 1 as booleans.
IsBooleanOrBit(v) == v \in {"True", "False", "0", "1"}

\* isinstance(v, types.BooleanType)
IsBoolean(v) == v \in {"True", "False"}

VARIABLES
    phases,        \* PhaseRunner._phases: the PhaseRunnerPhase objects, in order
    arg_pool,      \* PhaseRunner._arg_pool, shared with every phase
    stop_on_fail,  \* PhaseRunner._stop_on_fail
    first_phase,   \* PhaseRunner._first_phase
    last_phase,    \* PhaseRunner._last_phase
    pre_run,       \* hasattr(self, "pre_run")
    post_run,      \* hasattr(self, "post_run")
    pc,            \* where run_phases stands: "idle" when no run is in progress
    sel,           \* run_phases' local `phases`: what _get_phases returned
    idx,           \* position of the for loop in sel
    success,       \* run_phases' local `success`
    ret,           \* outcome of the last call: its return value or the exception raised
    executed,      \* positions of the phases whose run() was called in this run
    hooks,         \* hooks invoked in this run
    status0,       \* the status at the start of this run of each phase it has not executed
    call,          \* the last PhaseRunnerPhase.run call, right after it: what went in and out
    functions,     \* PhaseRunnerPhase._function of each phase, where the work units are fixed
    pool0,         \* the pool as it was when the run in progress (or the last run) started
    runs,          \* the last runs that returned: range, pool at the start, statuses at the end
    indexes,       \* NamedIndexes._indexes (src/snippets/named_slices.py): the names, in order
    item           \* the last NamedIndexes.__getitem__ call: its slice and its outcome

vars == <<phases, arg_pool, stop_on_fail, first_phase, last_phase, pre_run, post_run,
          pc, sel, idx, success, ret, executed, hooks, status0,
          call, functions, pool0, runs, indexes, item>>

\* The work units bound to the phases, and the record of the runs.
work == <<functions, pool0, runs>>

\* The NamedIndexes object.
snippet == <<indexes, item>>

\* What the PhaseRunner's own methods never touch.
others == <<call, work, snippet>>

runner == <<phases, arg_pool, stop_on_fail, first_phase, last_phase, pre_run, post_run>>

\* ------------------------------------------------------------------ helpers

Max(S) == CHOOSE x \in S : \A y \in S : y <= x

Range(s) == {s[k] : k \in DOMAIN s}

\* dict.update / item assignment: the keys of `new` are added or overwritten.
Update(pool, new) ==
    [k \in DOMAIN pool \cup DOMAIN new |-> IF k \in DOMAIN new THEN new[k] ELSE pool[k]]

\* ------------------------------------------------------- PhaseRunnerPhase

\* PhaseRunnerPhase.__init__
PhaseRunnerPhase(phase_name, required_args, optional_args, outputs, sof) ==
    [name |-> phase_name, required_args |-> required_args,
     optional_args |-> optional_args, outputs |-> outputs,
     stop_on_fail |-> sof, status |-> None]

\* What a work unit does when it is called: it raises, returns nothing,
\* returns a bare boolean, or returns a tuple.
Raises == [kind |-> "raise", vals |-> <<>>]
ReturnsNothing == [kind |-> "none", vals |-> <<>>]
ReturnsBool(b) == [kind |-> "bool", vals |-> <<b>>]
ReturnsTuple(t) == [kind |-> "tuple", vals |-> t]

\* Lines 83-86: None becomes [True], a bare boolean b becomes [b].
return_vals(rv) ==
    IF rv.kind = "none" THEN <<"True">> ELSE rv.vals

\* The check stopping at the first required name absent from the pool.
missing_args_first(p, pool) ==
    LET m == SelectSeq(p.required_args, LAMBDA a : a \notin DOMAIN pool)
    IN  IF m = <<>> THEN m ELSE <<m[1]>>

\* Lines 64-68: the required names absent from the pool, in declared order.
missing_args(p, pool) ==
    SelectSeq(p.required_args, LAMBDA a : a \notin DOMAIN pool)

\* The optional names absent from the pool passed as None.
function_args_defaults(p, pool) ==
    [a \in (Range(p.required_args) \cap DOMAIN pool) \cup Range(p.optional_args) |->
        IF a \in DOMAIN pool THEN pool[a] ELSE None]

\* Lines 60-77: the keyword arguments the work unit is called with.
function_args(p, pool) ==
    [a \in (Range(p.required_args) \cup Range(p.optional_args)) \cap DOMAIN pool |-> pool[a]]

\* The outputs written only when the work unit reported success.
write_outputs_on_success(p, pool, vals) ==
    IF vals[1] = "True"
      THEN Update(pool, [k \in Range(p.outputs) |->
                           vals[Max({i \in DOMAIN p.outputs : p.outputs[i] = k}) + 1]])
      ELSE pool

\* Lines 100-101: each declared output gets the value at its position; a
\* name declared twice keeps the later value.
write_outputs(p, pool, vals) ==
    Update(pool, [k \in Range(p.outputs) |->
                    vals[Max({i \in DOMAIN p.outputs : p.outputs[i] = k}) + 1]])

\* A phase that has a status refusing to run again: it records a failure
\* and raises.
PhaseRunOnce(p, pool, rv) ==
    IF p.status # None
      THEN [exc |-> "PhaseRunnerError", status |-> "False", pool |-> pool, invoked |-> FALSE,
            args |-> [a \in {} |-> "None"], missing |-> <<>>]
      ELSE IF rv.kind = "raise" \/ return_vals(rv) = <<>>
        THEN [exc |-> "Exception", status |-> p.status, pool |-> pool, invoked |-> TRUE,
              args |-> function_args(p, pool), missing |-> <<>>]
      ELSE [exc |-> None, status |-> return_vals(rv)[1], pool |-> pool, invoked |-> TRUE,
            args |-> function_args(p, pool), missing |-> <<>>]

\* PhaseRunnerPhase.run with the work unit behaving as rv.  The result
\* names the exception that leaves run() ("None" when it returns), the
\* phase's status and the pool afterwards, whether the work unit was called,
\* the keyword arguments it was called with, and the names the error of
\* line 72 lists.
PhaseRun(p, pool, rv) ==
    LET vals == return_vals(rv)
        out(exc, st, pl, inv) ==
            [exc |-> exc, status |-> st, pool |-> pl, invoked |-> inv,
             args |-> IF inv THEN function_args(p, pool) ELSE [a \in {} |-> "None"],
             missing |-> IF inv THEN <<>> ELSE missing_args(p, pool)]
    IN  IF p.required_args # <<>> /\ missing_args(p, pool) # <<>>
          THEN out("PhaseRunnerError", p.status, pool, FALSE)
        ELSE IF rv.kind = "raise"
          THEN out("Exception", p.status, pool, TRUE)
        ELSE IF vals = <<>>
          THEN out("IndexError", p.status, pool, TRUE)
        ELSE IF ~IsBoolean(vals[1])
          THEN out("PhaseRunnerError", p.status, pool, TRUE)
        ELSE IF p.outputs = <<>>
          THEN out(None, vals[1], pool, TRUE)
        ELSE IF Len(vals) < Len(p.outputs) + 1
          THEN IF \A i \in 2..Len(vals) : vals[i] \in StringValues
                 THEN out("PhaseRunnerError", vals[1], pool, TRUE)
                 ELSE out("TypeError", vals[1], pool, TRUE)
        ELSE out(None, vals[1], write_outputs(p, pool, vals), TRUE)

\* ------------------------------------------------------------ PhaseRunner

phase_list == [k \in DOMAIN phases |-> phases[k].name]

phase_exists(phase_name) == \E k \in DOMAIN phases : phase_list[k] = phase_name

\* _get_phase_index: 0-based index of the first phase whose lower-cased
\* name equals the lower-cased argument, -1 when there is none.
_get_phase_index(phase_name) ==
    LET hits == {k \in DOMAIN phases : Lower(phases[k].name) = Lower(phase_name)}
    IN  IF hits = {} THEN -1 ELSE (CHOOSE k \in hits : \A j \in hits : k <= j) - 1

\* Line 196: 0 for an absent first name, else the index of the name.
first_index(first) ==
    IF first = None THEN 0 ELSE _get_phase_index(first)

\* The index of the last name itself, as an exclusive slice bound.
last_index_exclusive(last) ==
    IF last = None THEN Len(phases) ELSE _get_phase_index(last)

\* Line 197: len(phases) for an absent last name, else one past the index
\* of the name.
last_index(last) ==
    IF last = None THEN Len(phases) ELSE _get_phase_index(last) + 1

\* self._phases[lo:hi] for 0 <= lo < hi <= len: a list of positions (1-based).
Slice(lo, hi) == [k \in 1..(hi - lo) |-> lo + k]

\* _get_phases: the exception it raises ("None" when it returns), and what
\* it returns: a list of phases, or (line 204, when the two indexes are
\* equal) a single phase object that is not a list.
_get_phases(first, last) ==
    LET fi == first_index(first)
        li == last_index(last)
        out(exc, is_list, items) == [exc |-> exc, is_list |-> is_list, items |-> items]
    IN  IF fi = -1 THEN out("IndexError", TRUE, <<>>)
        ELSE IF li = -1 THEN out("IndexError", TRUE, <<>>)
        ELSE IF li < fi THEN out("PhaseRunnerError", TRUE, <<>>)
        ELSE IF li > fi THEN out(None, TRUE, Slice(fi, li))
        ELSE IF fi + 1 \in DOMAIN phases THEN out(None, FALSE, <<fi + 1>>)
        ELSE out("IndexError", TRUE, <<>>)

\* The configured bound taken before the one handed to the call.
OrConfigured(a, b) == IF b # None THEN b ELSE a

\* Python's `a or b` on names: a unless it is None.
Or(a, b) == IF a # None THEN a ELSE b

\* The run stopping on the runner's flag alone.
StopRunRunnerOnly(succ, runner_sof, phase_sof) ==
    succ # "True" /\ runner_sof

\* Lines 239-240: the run stops after a phase that did not succeed when the
\* runner's flag and the phase's flag are both set.
StopRun(succ, runner_sof, phase_sof) ==
    succ # "True" /\ runner_sof /\ phase_sof

\* The run stopping after a hook that did not succeed, whatever the flag.
StopHookAlways(succ, runner_sof) ==
    succ # "True"

\* Lines 221 and 256: the run stops after a hook that did not succeed when
\* the runner's flag is set.
StopHook(succ, runner_sof) ==
    runner_sof /\ succ # "True"

\* The loop walking the full phase list instead of the resolved range.
CurrentPhaseOfAll(s, i) == i

\* Line 229: the phase the for loop stands at.
CurrentPhase(s, i) == s.items[i]

\* The status recorded on the phase and on every phase after it.
SetStatusFrom(phs, k, st) ==
    [j \in DOMAIN phs |-> IF j >= k THEN [phs[j] EXCEPT !.status = st] ELSE phs[j]]

\* Line 93: the phase at position k records its status.
SetStatus(phs, k, st) == [phs EXCEPT ![k].status = st]

\* ------------------------------------------------------------------ inputs

NoArgs == [k \in {} |-> None]

\* The contract a phase is registered with, after the demo of lines 283-288:
\* A needs `number` and produces `a_string`, C needs `a_string`, B nothing.
Contract(phase_name) ==
    CASE Lower(phase_name) = "a" ->
           [required_args |-> <<"number">>, optional_args |-> <<>>, outputs |-> <<"a_string">>]
      [] Lower(phase_name) = "c" ->
           [required_args |-> <<"a_string">>, optional_args |-> <<>>, outputs |-> <<>>]
      [] OTHER ->
           [required_args |-> <<>>, optional_args |-> <<>>, outputs |-> <<>>]

\* add_phase's stop_on_fail keyword: left out, or a boolean.
SofArgs == {"absent", "True", "False"}

\* What the work units may do when called.
Behaviours ==
    {Raises, ReturnsNothing, ReturnsBool("True"), ReturnsBool("False"),
     ReturnsTuple(<<"True">>), ReturnsTuple(<<"True", "mystring">>),
     ReturnsTuple(<<"False", "mystring">>), ReturnsTuple(<<"1", "y">>)}

\* What a hook may do: return a boolean, return nothing, or raise.
HookOutcomes == {"True", "False", "None", "raise"}

\* Bounds handed to run_phases.
RunArgs == Names \cup {UnknownName, None}

\* No call of PhaseRunnerPhase.run has just been made.
NoCall == [k |-> 0]

\* No call of NamedIndexes.__getitem__ has just been made.
NoItem == [kind |-> "none"]

\* A call that returns (or raises) at once: no run is in progress after it.
Returned(r) ==
    /\ pc' = "idle"
    /\ ret' = r
    /\ sel' = [is_list |-> TRUE, items |-> <<>>]
    /\ idx' = 0
    /\ success' = None
    /\ executed' = <<>>
    /\ hooks' = {}
    /\ status0' = NoArgs

\* The statuses of the phases at the positions in S.
Statuses(S) == [k \in S |-> phases[k].status]

\* ----------------------------------------------------------------- actions

\* PhaseRunner.__init__ (lines 107-113); the class may define the hooks.
InitWith(kwargs, hook_sets) ==
    /\ phases = <<>>
    /\ arg_pool \in kwargs
    /\ stop_on_fail = TRUE
    /\ first_phase = None
    /\ last_phase = None
    /\ \E hs \in hook_sets : pre_run = ("pre_run" \in hs) /\ post_run = ("post_run" \in hs)
    /\ pc = "idle"
    /\ ret = None
    /\ sel = [is_list |-> TRUE, items |-> <<>>]
    /\ idx = 0
    /\ success = None
    /\ executed = <<>>
    /\ hooks = {}
    /\ status0 = NoArgs

\* No work unit is fixed, no run has returned, and no NamedIndexes object is
\* in use.
InitOthers ==
    /\ call = NoCall
    /\ functions = <<>>
    /\ pool0 = NoArgs
    /\ runs = <<>>
    /\ indexes = <<>>
    /\ item = NoItem

\* A runner constructed with number = 19, of a class defining both hooks or
\* neither.
Init == InitWith({[number |-> "19"]}, {{}, {"pre_run", "post_run"}}) /\ InitOthers

\* PhaseRunner.add_phase (lines 115-132)
AddPhase(phase_name, sof_arg) ==
    /\ pc = "idle"
    /\ Len(phases) < MaxPhases
    /\ IF ~phase_exists(phase_name)
         THEN LET sof == IF sof_arg = "absent" THEN stop_on_fail ELSE sof_arg = "True"
                  c == Contract(phase_name)
              IN  /\ phases' = Append(phases, PhaseRunnerPhase(phase_name, c.required_args,
                                                c.optional_args, c.outputs, sof))
                  /\ Returned(None)
         ELSE /\ phases' = phases
              /\ Returned("PhaseRunnerError")
    /\ UNCHANGED <<arg_pool, stop_on_fail, first_phase, last_phase, pre_run, post_run>>

\* PhaseRunner.add_phase (lines 115-132) with the contract given by the
\* caller: the required and optional argument names and the output names.
AddPhaseWith(phase_name, sof_arg, c) ==
    /\ pc = "idle"
    /\ Len(phases) < MaxPhases
    /\ IF ~phase_exists(phase_name)
         THEN LET sof == IF sof_arg = "absent" THEN stop_on_fail ELSE sof_arg = "True"
              IN  /\ phases' = Append(phases, PhaseRunnerPhase(phase_name, c.required_args,
                                                c.optional_args, c.outputs, sof))
                  /\ Returned(None)
         ELSE /\ phases' = phases
              /\ Returned("PhaseRunnerError")
    /\ UNCHANGED <<arg_pool, stop_on_fail, first_phase, last_phase, pre_run, post_run>>

\* The args setter (lines 137-139): the caller's values are merged into the
\* pool.
SetArgs(new_args) ==
    /\ pc = "idle"
    /\ arg_pool' = Update(arg_pool, new_args)
    /\ Returned(None)
    /\ UNCHANGED <<phases, stop_on_fail, first_phase, last_phase, pre_run, post_run>>

\* The setter handing the new value down to every registered phase.
SetStopOnFailAll(value) ==
    /\ pc = "idle"
    /\ stop_on_fail' = value
    /\ phases' = [k \in DOMAIN phases |-> [phases[k] EXCEPT !.stop_on_fail = value]]
    /\ Returned(None)
    /\ UNCHANGED <<arg_pool, first_phase, last_phase, pre_run, post_run>>

\* The stop_on_fail setter (lines 183-184)
SetStopOnFail(value) ==
    /\ pc = "idle"
    /\ stop_on_fail' = value
    /\ Returned(None)
    /\ UNCHANGED <<phases, arg_pool, first_phase, last_phase, pre_run, post_run>>

\* cli_parse_args (lines 156-179) on parsed arguments: --startwith,
\* --endwith, --exact ("None" when not given) and the other arguments that
\* are not None.  arg_parser.error leaves by SystemExit; lines 165 and 167
\* call the undefined name `parser`, which raises NameError.
CliParseArgs(startwith, endwith, exact, other_args) ==
    /\ pc = "idle"
    /\ IF (startwith # None \/ endwith # None) /\ exact # None
         THEN Returned("SystemExit") /\ UNCHANGED <<first_phase, last_phase, arg_pool>>
       ELSE IF startwith # None /\ ~phase_exists(startwith)
         THEN Returned("SystemExit") /\ UNCHANGED <<first_phase, last_phase, arg_pool>>
       ELSE IF endwith # None /\ ~phase_exists(endwith)
         THEN Returned("NameError") /\ UNCHANGED <<first_phase, last_phase, arg_pool>>
       ELSE IF exact # None /\ ~phase_exists(exact)
         THEN Returned("NameError") /\ UNCHANGED <<first_phase, last_phase, arg_pool>>
       ELSE /\ first_phase' = Or(exact, Or(startwith, first_phase))
            /\ last_phase' = Or(exact, Or(endwith, last_phase))
            /\ arg_pool' = Update(arg_pool, other_args)
            /\ Returned(None)
    /\ UNCHANGED <<phases, stop_on_fail, pre_run, post_run>>

\* run_phases, lines 206-210: the bounds are chosen and the range resolved.
RunStart(first, last) ==
    /\ pc = "idle"
    /\ LET r == _get_phases(Or(first, first_phase), Or(last, last_phase))
       IN  IF r.exc # None
             THEN Returned(r.exc)
             ELSE /\ pc' = "pre_run"
                  /\ ret' = None
                  /\ sel' = [is_list |-> r.is_list, items |-> r.items]
                  /\ idx' = 1
                  /\ success' = None
                  /\ executed' = <<>>
                  /\ hooks' = {}
                  /\ status0' = Statuses(DOMAIN phases)
    /\ UNCHANGED runner

\* run_phases, lines 212-226: the pre-run hook.
PreRun(h) ==
    /\ pc = "pre_run"
    /\ IF pre_run
         THEN LET succ == IF h = "raise" THEN "False" ELSE h
              IN  /\ hooks' = hooks \cup {"pre_run"}
                  /\ success' = succ
                  /\ IF StopHook(succ, stop_on_fail)
                       THEN pc' = "idle" /\ ret' = "False"
                       ELSE pc' = "phases" /\ ret' = ret
         ELSE /\ pc' = "phases"
              /\ UNCHANGED <<hooks, success, ret>>
    /\ UNCHANGED <<runner, sel, idx, executed, status0>>

\* run_phases, line 229 when _get_phases returned a single phase object:
\* the for statement raises TypeError, which leaves run_phases.
IterError ==
    /\ pc = "phases"
    /\ ~sel.is_list
    /\ pc' = "idle"
    /\ ret' = "TypeError"
    /\ UNCHANGED <<runner, sel, idx, success, executed, hooks, status0>>

\* run_phases, lines 229-245: one turn of the loop, the work unit behaving
\* as rv.
RunPhase(rv) ==
    /\ pc = "phases"
    /\ sel.is_list
    /\ LET k == CurrentPhase(sel, idx)
           r == PhaseRun(phases[k], arg_pool, rv)
           succ == IF r.exc = None THEN r.status ELSE "False"
       IN  /\ phases' = SetStatus(phases, k, r.status)
           /\ arg_pool' = r.pool
           /\ success' = succ
           /\ executed' = Append(executed, k)
           /\ status0' = [j \in DOMAIN status0 \ {k} |-> status0[j]]
           /\ IF StopRun(succ, stop_on_fail, phases[k].stop_on_fail)
                THEN pc' = "idle" /\ ret' = "False" /\ idx' = idx
                ELSE IF idx < Len(sel.items)
                       THEN pc' = "phases" /\ ret' = ret /\ idx' = idx + 1
                       ELSE pc' = "post_run" /\ ret' = ret /\ idx' = idx
    /\ UNCHANGED <<stop_on_fail, first_phase, last_phase, pre_run, post_run, sel, hooks>>

\* run_phases, lines 247-266: the post-run hook, the status report, and the
\* end of the function, which returns nothing.
PostRun(h) ==
    /\ pc = "post_run"
    /\ pc' = "idle"
    /\ IF post_run
         THEN LET succ == IF h = "raise" THEN "False" ELSE h
              IN  /\ hooks' = hooks \cup {"post_run"}
                  /\ success' = succ
                  /\ ret' = IF StopHook(succ, stop_on_fail) THEN "False" ELSE None
         ELSE /\ ret' = None
              /\ UNCHANGED <<hooks, success>>
    /\ UNCHANGED <<runner, sel, idx, executed, status0>>

Next ==
    \/ \E n \in Names, s \in SofArgs : AddPhase(n, s) /\ UNCHANGED others
    \/ \E v \in BOOLEAN : SetStopOnFail(v) /\ UNCHANGED others
    \/ \E f \in RunArgs, l \in RunArgs : RunStart(f, l) /\ UNCHANGED others
    \/ \E h \in HookOutcomes : PreRun(h) /\ UNCHANGED others
    \/ IterError /\ UNCHANGED others
    \/ \E rv \in Behaviours : RunPhase(rv) /\ UNCHANGED others
    \/ \E h \in HookOutcomes : PostRun(h) /\ UNCHANGED others

Spec == Init /\ [][Next]_vars

\* The runner with names that differ only in case, and work units and hooks
\* that succeed.
InitNames ==
    InitWith({[number |-> "19"]}, {{}, {"pre_run", "post_run"}}) /\ InitOthers

NextNames ==
    \/ \E n \in CaseNames : AddPhase(n, "absent") /\ UNCHANGED others
    \/ \E f \in CaseNames \cup {UnknownName, None}, l \in CaseNames \cup {UnknownName, None} :
         RunStart(f, l) /\ UNCHANGED others
    \/ PreRun("True") /\ UNCHANGED others
    \/ IterError /\ UNCHANGED others
    \/ RunPhase(ReturnsTuple(<<"True", "mystring">>)) /\ UNCHANGED others
    \/ PostRun("True") /\ UNCHANGED others

SpecNames == InitNames /\ [][NextNames]_vars

\* The runner configured from the command line: a class without hooks, work
\* units that succeed, bounds given by cli_parse_args and by run_phases.
InitCli ==
    InitWith({[number |-> "19"]}, {{}}) /\ InitOthers

\* Command lines: --startwith and --endwith, each given or not; --exact
\* alone; and --exact together with --startwith, which is rejected.
CliSelections ==
    {<<s, e, None>> : s \in {"B", None}, e \in {"B", None}}
        \cup {<<None, None, x>> : x \in {"B", "C"}}
        \cup {<<"B", None, "B">>}

\* The other command-line arguments, merged into the pool.
CliOtherArgs == {[a_string |-> "other"]}

NextCli ==
    \/ \E n \in Names : AddPhase(n, "absent") /\ UNCHANGED others
    \/ \E a \in CliSelections, o \in CliOtherArgs :
         CliParseArgs(a[1], a[2], a[3], o) /\ UNCHANGED others
    \/ \E f \in Names \cup {None}, l \in Names \cup {None} : RunStart(f, l) /\ UNCHANGED others
    \/ PreRun("True") /\ UNCHANGED others
    \/ IterError /\ UNCHANGED others
    \/ RunPhase(ReturnsTuple(<<"True", "mystring">>)) /\ UNCHANGED others
    \/ PostRun("True") /\ UNCHANGED others

SpecCli == InitCli /\ [][NextCli]_vars

\* Phases that hand values to one another through the pool: A produces x
\* and y, B takes z when it is there and produces x, C needs x and y and
\* takes z when it is there.
DataContract(phase_name) ==
    CASE phase_name = "A" ->
           [required_args |-> <<>>, optional_args |-> <<>>, outputs |-> <<"x", "y">>]
      [] phase_name = "B" ->
           [required_args |-> <<>>, optional_args |-> <<"z">>, outputs |-> <<"x">>]
      [] OTHER ->
           [required_args |-> <<"x", "y">>, optional_args |-> <<"z">>, outputs |-> <<>>]

\* What the work units of these phases may do when called.
DataBehaviours ==
    {Raises, ReturnsBool("False"), ReturnsTuple(<<"True">>),
     ReturnsTuple(<<"True", "y">>), ReturnsTuple(<<"True", "19">>),
     ReturnsTuple(<<"True", "mystring", "other">>),
     ReturnsTuple(<<"False", "mystring", "other">>),
     ReturnsTuple(<<"1", "y">>)}

\* Values the caller merges into the pool.
CallerArgs == {[z |-> "y"], [x |-> "other"]}

\* The record of the call of run() made by the step RunPhase(rv): the
\* phase, what its work unit did, the pool and the status before and after,
\* and what run() did.
Called(rv) ==
    LET k == CurrentPhase(sel, idx)
        r == PhaseRun(phases[k], arg_pool, rv)
    IN  [k |-> k, rv |-> rv, exc |-> r.exc, invoked |-> r.invoked, args |-> r.args,
         missing |-> r.missing,
         pool_before |-> arg_pool, status_before |-> phases[k].status,
         pool_after |-> arg_pool', status_after |-> phases'[k].status]

\* A runner without hooks, constructed without keyword arguments.
InitData ==
    InitWith({NoArgs}, {{}}) /\ InitOthers

NextData ==
    \/ \E n \in Names : AddPhaseWith(n, "absent", DataContract(n))
                            /\ call' = NoCall /\ UNCHANGED <<work, snippet>>
    \/ \E a \in CallerArgs : SetArgs(a) /\ call' = NoCall /\ UNCHANGED <<work, snippet>>
    \/ RunStart(None, None) /\ call' = NoCall /\ UNCHANGED <<work, snippet>>
    \/ PreRun("True") /\ call' = NoCall /\ UNCHANGED <<work, snippet>>
    \/ \E rv \in DataBehaviours : RunPhase(rv) /\ call' = Called(rv) /\ UNCHANGED <<work, snippet>>
    \/ PostRun("True") /\ call' = NoCall /\ UNCHANGED <<work, snippet>>

SpecData == InitData /\ [][NextData]_vars

\* Deterministic work units: what each does is a function of the keyword
\* arguments it is called with.
WorkUnits == {"succeed", "fail", "raise", "depends"}

\* Line 82: self._function(**function_args) for the work unit u.
Apply(u, args) ==
    CASE u = "succeed" -> ReturnsTuple(<<"True", "mystring">>)
      [] u = "fail" -> ReturnsTuple(<<"False", "other">>)
      [] u = "raise" -> Raises
      [] OTHER -> IF \E a \in DOMAIN args : args[a] = "mystring"
                    THEN ReturnsBool("False")
                    ELSE ReturnsTuple(<<"True", "other">>)

\* What the work unit of the phase at position k does when run() calls it
\* now.
WorkUnitResult(k) == Apply(functions[k], function_args(phases[k], arg_pool))

\* The phase names of the runs that are repeated.
RerunNames == {"A", "C"}

\* The record of the run that returns with this step, if one does: its
\* resolved range, the pool it started from, the statuses it leaves, and
\* whether the run before it had the same range and the same pool at its
\* start.
RecordRun ==
    runs' = IF pc' = "idle"
              THEN <<[sel |-> sel', pool0 |-> pool0,
                      status |-> [k \in DOMAIN phases' |-> phases'[k].status],
                      rerun |-> runs # <<>> /\ runs[1].sel = sel' /\ runs[1].pool0 = pool0]>>
              ELSE runs

\* The caller puts the pool back, through the dict the args getter returns
\* (lines 134-136), to what it was when the last run started.
RestoreArgs ==
    /\ pc = "idle"
    /\ arg_pool' = pool0
    /\ Returned(None)
    /\ UNCHANGED <<phases, stop_on_fail, first_phase, last_phase, pre_run, post_run>>

\* A runner without hooks constructed with number = 19; its pool is the
\* pool a first run would start from.
InitRerun ==
    /\ InitWith({[number |-> "19"]}, {{}})
    /\ call = NoCall
    /\ functions = <<>>
    /\ pool0 = arg_pool
    /\ runs = <<>>
    /\ indexes = <<>>
    /\ item = NoItem

NextRerun ==
    \/ \E n \in RerunNames, u \in WorkUnits :
         /\ AddPhase(n, "absent")
         /\ functions' = IF phases' # phases THEN Append(functions, u) ELSE functions
         /\ runs' = <<>>
         /\ UNCHANGED <<call, pool0, snippet>>
    \/ \E v \in BOOLEAN : SetStopOnFail(v) /\ runs' = <<>> /\ UNCHANGED <<call, functions, pool0, snippet>>
    \/ RestoreArgs /\ UNCHANGED others
    \/ \E f \in RerunNames \cup {None} :
         /\ RunStart(f, None)
         /\ pool0' = IF pc' = "idle" THEN pool0 ELSE arg_pool
         /\ UNCHANGED <<call, functions, runs, snippet>>
    \/ PreRun("True") /\ RecordRun /\ UNCHANGED <<call, functions, pool0, snippet>>
    \/ RunPhase(WorkUnitResult(CurrentPhase(sel, idx)))
         /\ RecordRun /\ UNCHANGED <<call, functions, pool0, snippet>>
    \/ PostRun("True") /\ RecordRun /\ UNCHANGED <<call, functions, pool0, snippet>>

SpecRerun == InitRerun /\ [][NextRerun]_vars

\* A runner without hooks whose phases are all registered without a
\* stop_on_fail keyword, the runner's flag being assigned in between; the
\* work units succeed or fail.
InitDefault ==
    InitWith({[number |-> "19"]}, {{}}) /\ InitOthers

NextDefault ==
    \/ \E n \in Names : AddPhase(n, "absent") /\ UNCHANGED others
    \/ \E v \in BOOLEAN : SetStopOnFail(v) /\ UNCHANGED others
    \/ RunStart(None, None) /\ UNCHANGED others
    \/ PreRun("True") /\ UNCHANGED others
    \/ \E b \in {"True", "False"} : RunPhase(ReturnsTuple(<<b, "mystring">>)) /\ UNCHANGED others
    \/ PostRun("True") /\ UNCHANGED others

SpecDefault == InitDefault /\ [][NextDefault]_vars

\* ------------------------------------------------------------ NamedIndexes
\* src/snippets/named_slices.py

\* Largest number of names held by the NamedIndexes object.
MaxIndexes == 3

\* The parts of a slice: absent (None), an integer, or a name.
Absent == [kind |-> "none", num |-> 0, name |-> ""]
AtInt(n) == [kind |-> "int", num |-> n, name |-> ""]
AtName(n) == [kind |-> "name", num |-> 0, name |-> n]

\* The integers and the names used in slices.
SliceInts == (0 - 1)..(MaxIndexes + 1)
SliceParts == {Absent} \cup {AtInt(n) : n \in SliceInts} \cup {AtName(n) : n \in CaseNames \cup {UnknownName}}

\* __search_index (lines 29-34): the 0-based index of the first name equal
\* to the argument whatever the case; -1 stands for None (no such name).
search_index(n) ==
    LET hits == {k \in DOMAIN indexes : Lower(n) = Lower(indexes[k])}
    IN  IF hits = {} THEN 0 - 1 ELSE (CHOOSE k \in hits : \A j \in hits : k <= j) - 1

\* The index of the stop name used as it is.
name_stop_exclusive(si) == si

\* Line 63: a stop given by name is moved one past the name's index.
name_stop(si) == si + 1

\* list[start:stop:1] on a list of length n: where Python starts and stops
\* for integer bounds (None is given as absent).
Clamp(part, n, default) ==
    IF part.kind = "none" THEN default
    ELSE IF part.num < 0 THEN (IF part.num + n < 0 THEN 0 ELSE part.num + n)
    ELSE IF part.num > n THEN n
    ELSE part.num

\* Line 70: self._indexes[slice(start, stop, 1)], the parts being integers
\* or absent; the result is empty when the stop is not after the start.
ListSlice(start, stop) ==
    LET lo == Clamp(start, Len(indexes), 0)
        hi == Clamp(stop, Len(indexes), Len(indexes))
    IN  [k \in 1..(hi - lo) |-> indexes[lo + k]]

\* NamedIndexes.__init__ beside a runner that is left alone.
InitSlices ==
    /\ InitWith({NoArgs}, {{}})
    /\ call = NoCall
    /\ functions = <<>>
    /\ pool0 = NoArgs
    /\ runs = <<>>
    /\ indexes = <<>>
    /\ item = NoItem

\* add_index (lines 14-16): a name already held, in the same case, is
\* ignored.
AddIndex(index_name) ==
    /\ Len(indexes) < MaxIndexes
    /\ indexes' = IF \E k \in DOMAIN indexes : indexes[k] = index_name
                    THEN indexes
                    ELSE Append(indexes, index_name)
    /\ item' = NoItem
    /\ UNCHANGED <<runner, pc, sel, idx, success, ret, executed, hooks, status0, call, work>>

\* __getitem__ with a single index (lines 36-45).  An integer gives the
\* item at that place, counted from the end when negative; a name that is
\* found reads the attribute _slices, which does not exist; a name that is
\* not found reaches `raise exceptions.IndexError`, and `exceptions` is not
\* imported.
GetItem(index) ==
    /\ index.kind # "none"
    /\ LET n == Len(indexes)
           at == IF index.num < 0 THEN index.num + n ELSE index.num
           out(exc, result) ==
               [kind |-> "index", start |-> index, stop |-> index, exc |-> exc, result |-> result]
       IN  item' = IF index.kind = "int"
                     THEN IF at >= 0 /\ at < n
                            THEN out(None, <<indexes[at + 1]>>)
                            ELSE out("IndexError", <<>>)
                   ELSE IF search_index(index.name) # 0 - 1
                     THEN out("AttributeError", <<>>)
                     ELSE out("NameError", <<>>)
    /\ UNCHANGED <<runner, pc, sel, idx, success, ret, executed, hooks, status0, call, work, indexes>>

\* __getitem__ with a slice (lines 46-70).  Names are replaced by their
\* indexes, the stop name's moved by one; a name that is not found reaches
\* `raise exceptions.IndexError`, and `exceptions` is not imported.  slice()
\* accepts any two integers, so the except of line 67 is never entered.
GetSlice(start, stop) ==
    /\ LET si == IF start.kind = "name" THEN search_index(start.name) ELSE 0
           ei == IF stop.kind = "name" THEN search_index(stop.name) ELSE 0
           slice_start == IF start.kind = "name" THEN AtInt(si) ELSE start
           slice_stop == IF stop.kind = "name" THEN AtInt(name_stop(ei)) ELSE stop
           out(exc, result) ==
               [kind |-> "slice", start |-> start, stop |-> stop, exc |-> exc, result |-> result]
       IN  item' = IF start.kind = "name" /\ si = 0 - 1 THEN out("NameError", <<>>)
                   ELSE IF stop.kind = "name" /\ ei = 0 - 1 THEN out("NameError", <<>>)
                   ELSE out(None, ListSlice(slice_start, slice_stop))
    /\ UNCHANGED <<runner, pc, sel, idx, success, ret, executed, hooks, status0, call, work, indexes>>

NextSlices ==
    \/ \E n \in CaseNames : AddIndex(n)
    \/ \E i \in SliceParts : GetItem(i)
    \/ \E s \in SliceParts, e \in SliceParts : GetSlice(s, e)

SpecSlices == InitSlices /\ [][NextSlices]_vars

\* ------------------------------------------------------------------ claims

Last(q) == q[Len(q)]

\* The run stopped at a phase that failed: run_phases returned False after
\* executing a phase and without reaching the post-run hook.
AbortedAtPhase ==
    /\ pc = "idle"
    /\ ret = "False"
    /\ executed # <<>>
    /\ "post_run" \notin hooks

\* The phases of the resolved range after the last one executed.
Following == {sel.items[i] : i \in (Len(executed) + 1)..Len(sel.items)}

\* C1: in every run the phases executed are executed in registration order,
\* each at most once and one directly after the other, and every one of them
\* belongs to the resolved range (a run of consecutive registered positions).
C1_InOrder ==
    /\ \A i \in DOMAIN executed : \A j \in DOMAIN executed :
         i < j => executed[i] < executed[j]
    /\ \A i \in DOMAIN executed : executed[i] = sel.items[i]
    /\ Len(executed) <= Len(sel.items)
    /\ \A i \in DOMAIN sel.items :
         sel.items[i] \in DOMAIN phases /\ sel.items[i] = sel.items[1] + (i - 1)
    /\ ~sel.is_list => executed = <<>>

\* A run over the sub-range [2, 3] of three phases went to its end.
C1_Witness ==
    /\ pc = "idle"
    /\ Len(phases) = 3
    /\ sel.items = <<2, 3>>
    /\ executed = <<2, 3>>

\* C2: after a phase fails the run aborts (run_phases returns False, no
\* further phase runs, the post-run hook is not invoked) exactly when the
\* runner's flag and the phase's flag are both set; otherwise the next phase
\* of the range is executed, or the post-run step when there is none; and a
\* run under a false runner flag executes every phase of the range.
C2_AbortIff ==
    [][/\ (pc = "phases" /\ executed' # executed) =>
            LET k == Last(executed')
                aborts == pc' = "idle" /\ ret' = "False" /\ "post_run" \notin hooks'
                goes_on == IF Len(executed') < Len(sel.items)
                             THEN pc' = "phases" /\ sel.items[idx'] = sel.items[Len(executed') + 1]
                             ELSE pc' = "post_run"
            IN  /\ Len(executed') = Len(executed) + 1
                /\ aborts <=> (success' # "True" /\ stop_on_fail /\ phases[k].stop_on_fail)
                /\ ~aborts => goes_on
       /\ (pc # "idle" /\ pc' = "idle" /\ sel.is_list /\ ~stop_on_fail) =>
            executed' = sel.items
      ]_vars

\* A run went on past a failed phase whose own flag is clear although the
\* runner's flag is set.
C2_Witness ==
    /\ pc = "phases"
    /\ executed # <<>>
    /\ success = "False"
    /\ stop_on_fail
    /\ ~phases[Last(executed)].stop_on_fail

\* C3 as stated: when a run aborts at a failed phase, every phase after it in
\* the resolved range has status 'not yet run' when the run returns.
C3_NotYetRun ==
    AbortedAtPhase => \A k \in Following : phases[k].status = None

\* C3 as amended: when a run aborts at a failed phase, every phase after it
\* in the resolved range is left unexecuted with the status it had when the
\* run started.
C3_StatusKept ==
    AbortedAtPhase =>
        \A k \in Following :
            /\ k \notin Range(executed)
            /\ k \in DOMAIN status0
            /\ phases[k].status = status0[k]

\* A run aborted before a phase that an earlier run had executed.
C3_Witness ==
    /\ AbortedAtPhase
    /\ \E k \in Following : phases[k].status # None

\* Exceptions that can leave a call on the runner.
Exceptions == {"IndexError", "PhaseRunnerError", "TypeError", "Exception"}

\* C4: when a phase's work unit throws, the error does not leave
\* run_phases, the phase counts as failed for the stop-on-failure policy,
\* and the status recorded on the phase is 'failed'.
C4_ThrowIsFailed ==
    [][\A rv \in Behaviours :
         LET k == CurrentPhase(sel, idx)
         IN  (/\ rv.kind = "raise"
              /\ RunPhase(rv)
              /\ PhaseRun(phases[k], arg_pool, rv).invoked) =>
                 /\ ret' \notin Exceptions
                 /\ success' = "False"
                 /\ phases'[k].status = "False"
      ]_vars

\* C5: a PhaseRunnerError raised by a phase inside run_phases (missing
\* required arguments, a non-boolean first value, too few outputs) leaves
\* run_phases as that error and ends the run.
C5_ErrorSurfaced ==
    [][\A rv \in Behaviours :
         (/\ RunPhase(rv)
          /\ PhaseRun(phases[CurrentPhase(sel, idx)], arg_pool, rv).exc = "PhaseRunnerError") =>
             /\ pc' = "idle"
             /\ ret' = "PhaseRunnerError"
      ]_vars

\* The run ended on an abort condition: the last step executed did not
\* succeed and the flags that stop the run after it are set.
AbortCondition ==
    /\ success # "True"
    /\ stop_on_fail
    /\ \/ "post_run" \in hooks
       \/ executed # <<>> /\ phases[Last(executed)].stop_on_fail
       \/ executed = <<>> /\ "pre_run" \in hooks

\* C6: run_phases returns False when an abort condition ends the run, and
\* otherwise returns the status of the last phase or hook executed.
C6_ReturnsLastStatus ==
    (pc = "idle" /\ sel.is_list /\ sel.items # <<>>) =>
        IF AbortCondition THEN ret = "False" ELSE ret = success

\* The positions of the phases whose name matches, whatever the case.
Matches(phase_name) ==
    {k \in DOMAIN phases : Lower(phases[k].name) = Lower(phase_name)}

\* C7: add_phase with a name equal, whatever the case, to a registered name
\* fails with PhaseRunnerError and leaves the phase list as it was; so the
\* registered names are pairwise distinct whatever the case.
C7_NoCaseDuplicate ==
    [][/\ \A n \in CaseNames :
            (AddPhase(n, "absent") /\ Matches(n) # {}) =>
                (ret' = "PhaseRunnerError" /\ phases' = phases)
       /\ \A i \in DOMAIN phases' : \A j \in DOMAIN phases' :
            i # j => Lower(phases'[i].name) # Lower(phases'[j].name)
      ]_vars

\* Position (1-based) of the first phase matching the name whatever the
\* case, 0 when no phase matches; an absent bound stands for `absent`.
PositionOf(phase_name, absent) ==
    IF phase_name = None THEN absent
    ELSE IF Matches(phase_name) = {} THEN 0
    ELSE CHOOSE k \in Matches(phase_name) : \A j \in Matches(phase_name) : k <= j

\* C8: with the first name matching at position i and the last name at
\* position j >= i (an absent first standing for the first phase, an absent
\* last for the last phase), the resolved range is the phases i..j in
\* order, the one at j included.
C8_RangeInclusive ==
    [][\A f \in CaseNames \cup {None} : \A l \in CaseNames \cup {None} :
         LET i == PositionOf(f, 1)
             j == PositionOf(l, Len(phases))
         IN  (pc = "idle" /\ i >= 1 /\ i <= j /\ RunStart(f, l)) =>
                 /\ pc' = "pre_run"
                 /\ sel'.is_list
                 /\ sel'.items = [k \in 1..(j - i + 1) |-> i + k - 1]
      ]_vars

\* The range from the second to the third of three phases has been
\* resolved.
C8_Witness ==
    /\ pc = "pre_run"
    /\ Len(phases) = 3
    /\ sel.is_list
    /\ sel.items = <<2, 3>>

\* C9: run_phases with a last name registered before the first name fails
\* with PhaseRunnerError at once, so that no phase is executed.
C9_ReversedRejected ==
    [][\A f \in Names : \A l \in Names :
         (/\ pc = "idle"
          /\ PositionOf(l, 0) >= 1
          /\ PositionOf(l, 0) < PositionOf(f, 0)
          /\ RunStart(f, l)) =>
             /\ pc' = "idle"
             /\ ret' = "PhaseRunnerError"
      ]_vars

\* C10: run_phases with a first or a last name that matches no registered
\* phase fails with IndexError at once, whatever the other bound is, so
\* that no phase is executed.
C10_UnknownRejected ==
    [][\A f \in RunArgs : \A l \in RunArgs :
         (/\ pc = "idle"
          /\ \/ f # None /\ PositionOf(f, 0) = 0
             \/ l # None /\ PositionOf(l, 0) = 0
          /\ RunStart(f, l)) =>
             /\ pc' = "idle"
             /\ ret' = "IndexError"
      ]_vars

\* C11: each bound of a run is the one handed to run_phases when there is
\* one, whatever range cli_parse_args configured; else the configured bound
\* when there is one; else the start (the end) of the full phase list.
C11_BoundsPrecedence ==
    [][\A f \in Names \cup {None} : \A l \in Names \cup {None} :
         LET i == PositionOf(IF f # None THEN f ELSE first_phase, 1)
             j == PositionOf(IF l # None THEN l ELSE last_phase, Len(phases))
         IN  (pc = "idle" /\ i >= 1 /\ i <= j /\ RunStart(f, l)) =>
                 /\ pc' = "pre_run"
                 /\ sel'.is_list
                 /\ sel'.items = [k \in 1..(j - i + 1) |-> i + k - 1]
      ]_vars

\* A range was configured, and a run was started on explicit bounds that
\* both differ from the configured ones.
C11_Witness ==
    /\ pc = "pre_run"
    /\ first_phase # None
    /\ last_phase # None
    /\ sel.is_list
    /\ sel.items[1] # PositionOf(first_phase, 1)
    /\ Last(sel.items) # PositionOf(last_phase, Len(phases))

\* C12: when run() is called on a phase some of whose required names are
\* not in the pool, it raises PhaseRunnerError listing every one of those
\* names, the work unit is not called, and the pool and the phase's status
\* are what they were.
C12_MissingRequired ==
    call.k # 0 =>
        LET p == phases[call.k]
            absent == {a \in Range(p.required_args) : a \notin DOMAIN call.pool_before}
        IN  absent # {} =>
                /\ call.exc = "PhaseRunnerError"
                /\ Range(call.missing) = absent
                /\ ~call.invoked
                /\ call.pool_after = call.pool_before
                /\ call.status_after = call.status_before

\* run() was called on a phase with two required names, both absent.
C12_Witness ==
    /\ call.k # 0
    /\ phases[call.k].required_args = <<"x", "y">>
    /\ {"x", "y"} \cap DOMAIN call.pool_before = {}
    /\ call.exc = "PhaseRunnerError"

\* C13: the work unit of a phase is called with, for each required name and
\* each optional name that is in the pool, the value the pool holds when
\* that phase starts, and with no other name; and while a run is in
\* progress the pool changes only where the phase being executed writes a
\* declared output, so that a later phase reads the latest value written.
C13_ReadsPoolAtStart ==
    [][/\ call'.k # 0 =>
            LET p == phases[call'.k]
                names == Range(p.required_args) \cup Range(p.optional_args)
            IN  call'.invoked =>
                    /\ Range(p.required_args) \subseteq DOMAIN call'.args
                    /\ DOMAIN call'.args = names \cap DOMAIN arg_pool
                    /\ \A a \in DOMAIN call'.args : call'.args[a] = arg_pool[a]
       /\ pc # "idle" =>
            \A key \in DOMAIN arg_pool \cup DOMAIN arg_pool' :
                (\/ key \notin DOMAIN arg_pool
                 \/ key \notin DOMAIN arg_pool'
                 \/ arg_pool'[key] # arg_pool[key]) =>
                    /\ call'.k # 0
                    /\ key \in Range(phases[call'.k].outputs)
                    /\ key \in DOMAIN arg_pool'
                    /\ arg_pool'[key] \in Range(call'.rv.vals)
      ]_vars

\* In one run A wrote x, B wrote x again, and C was called with the value B
\* wrote, and without the optional z, which is not in the pool.
C13_Witness ==
    /\ call.k = 3
    /\ executed = <<1, 2, 3>>
    /\ phases[1].name = "A"
    /\ phases[2].name = "B"
    /\ call.invoked
    /\ DOMAIN call.args = {"x", "y"}
    /\ call.args["x"] = "y"

\* The work unit was called and returned a sequence or a bare boolean whose
\* first value is a boolean: the values it returned after that status.
ReturnedStatus(c) ==
    /\ c.k # 0
    /\ c.invoked
    /\ c.rv.kind \in {"tuple", "bool"}
    /\ c.rv.vals # <<>>
    /\ c.rv.vals[1] \in {"True", "False"}

ValuesAfterStatus(c) == [i \in 1..(Len(c.rv.vals) - 1) |-> c.rv.vals[i + 1]]

\* C14: when the work unit of a phase declaring N outputs returns a boolean
\* status followed by at least N values, run() returns, the status is
\* recorded, the pool holds the k-th value under the k-th declared output
\* name for every k, whether the status is true or false, and every other
\* key of the pool is as it was.
C14_OutputsWritten ==
    ReturnedStatus(call) =>
        LET outputs == phases[call.k].outputs
            values == ValuesAfterStatus(call)
        IN  Len(values) >= Len(outputs) =>
                /\ call.exc = None
                /\ call.status_after = call.rv.vals[1]
                /\ \A k \in DOMAIN outputs :
                      /\ outputs[k] \in DOMAIN call.pool_after
                      /\ call.pool_after[outputs[k]] = values[k]
                /\ DOMAIN call.pool_after = DOMAIN call.pool_before \cup Range(outputs)
                /\ \A key \in DOMAIN call.pool_before \ Range(outputs) :
                      call.pool_after[key] = call.pool_before[key]

\* The phase with two outputs reported a failure together with two values,
\* which replaced an x the caller had set and added y, leaving z.
C14_Witness ==
    /\ ReturnedStatus(call)
    /\ phases[call.k].outputs = <<"x", "y">>
    /\ call.rv.vals = <<"False", "mystring", "other">>
    /\ call.pool_before = [x |-> "other", z |-> "y"]
    /\ call.pool_after = [x |-> "mystring", y |-> "other", z |-> "y"]

\* C15: when the work unit of a phase declaring N >= 1 outputs returns a
\* boolean status followed by fewer than N values, run() raises
\* PhaseRunnerError and none of the declared outputs is written to the pool.
C15_MissingOutputs ==
    ReturnedStatus(call) =>
        LET outputs == phases[call.k].outputs
            values == ValuesAfterStatus(call)
        IN  (outputs # <<>> /\ Len(values) < Len(outputs)) =>
                /\ call.exc = "PhaseRunnerError"
                /\ \A o \in Range(outputs) :
                      /\ o \in DOMAIN call.pool_after <=> o \in DOMAIN call.pool_before
                      /\ o \in DOMAIN call.pool_before =>
                            call.pool_after[o] = call.pool_before[o]

\* C16: when the work unit of a phase returns a sequence whose first
\* element is not a boolean, run() raises PhaseRunnerError and neither the
\* status recorded on the phase nor the pool changes.
C16_NonBooleanStatus ==
    (/\ call.k # 0
     /\ call.invoked
     /\ call.rv.kind = "tuple"
     /\ call.rv.vals # <<>>
     /\ call.rv.vals[1] \notin {"True", "False"}) =>
        /\ call.exc = "PhaseRunnerError"
        /\ call.status_after = call.status_before
        /\ call.pool_after = call.pool_before

\* A phase with an output, which an earlier run had left succeeded, returned
\* the integer 1 and a value.
C16_Witness ==
    /\ call.k # 0
    /\ call.invoked
    /\ call.rv.vals = <<"1", "y">>
    /\ phases[call.k].outputs # <<>>
    /\ call.status_before = "True"
    /\ call.exc = "PhaseRunnerError"

\* C17: when the pre-run hook fails (returns False or raises) and the
\* runner's flag is set, run_phases returns False at once: no phase is
\* executed and no status changes.  When the flag is not set the failure is
\* not returned: the run goes on to the phases, and when it returns every
\* phase of the resolved range has been executed.
C17_PreRunHookFails ==
    [][/\ (pc = "pre_run" /\ pre_run /\ success' = "False") =>
            IF stop_on_fail
              THEN /\ pc' = "idle"
                   /\ ret' = "False"
                   /\ executed' = <<>>
                   /\ phases' = phases
              ELSE /\ pc' = "phases"
                   /\ idx' = 1
                   /\ ret' # "False"
                   /\ executed' = <<>>
       /\ (/\ pc # "idle" /\ pc' = "idle"
           /\ "pre_run" \in hooks'
           /\ ~stop_on_fail
           /\ sel.is_list) =>
              /\ executed' = sel.items
              /\ ret' # "False"
      ]_vars

\* The pre-run hook failed under a set flag: the run returned False without
\* executing any phase of its range, one of which an earlier run had
\* executed.
C17_Witness ==
    /\ pc = "idle"
    /\ ret = "False"
    /\ stop_on_fail
    /\ hooks = {"pre_run"}
    /\ success = "False"
    /\ executed = <<>>
    /\ \E i \in DOMAIN sel.items : phases[sel.items[i]].status # None

\* C18: a run over the same resolved range as the run before it, on a
\* runner whose phases, work units and flags are the same, that started
\* from a pool equal to the pool the run before started from, leaves every
\* phase with the status the run before left.
C18_RerunSameStatuses ==
    [][(/\ pc # "idle" /\ pc' = "idle"
        /\ runs # <<>>
        /\ runs[1].sel = sel
        /\ runs[1].pool0 = pool0) =>
           [k \in DOMAIN phases' |-> phases'[k].status] = runs[1].status
      ]_vars

\* A run of two phases that changed the pool has been repeated from the
\* pool it first started from, and one phase failed where the other
\* succeeded.
C18_Witness ==
    /\ pc = "idle"
    /\ runs # <<>>
    /\ runs[1].rerun
    /\ executed = <<1, 2>>
    /\ arg_pool # pool0
    /\ phases[1].status = "True"
    /\ phases[2].status = "False"

\* The place (from 1) of the first name equal to n whatever the case, 0
\* when there is none.
FirstNamed(n) ==
    LET hits == {k \in DOMAIN indexes : Lower(indexes[k]) = Lower(n)}
    IN  IF hits = {} THEN 0 ELSE CHOOSE k \in hits : \A j \in hits : k <= j

\* A slice part can be resolved: it is absent, an integer from 0 to the
\* length, or a name that is held.
Resolvable(part) ==
    \/ part.kind = "none"
    \/ part.kind = "int" /\ part.num >= 0 /\ part.num <= Len(indexes)
    \/ part.kind = "name" /\ FirstNamed(part.name) # 0

\* The place (from 1) of the first item of the slice.
FirstPlace(part) ==
    CASE part.kind = "none" -> 1
      [] part.kind = "int" -> part.num + 1
      [] OTHER -> FirstNamed(part.name)

\* The place (from 1) of the last item of the slice: the item named, or the
\* one before the integer, or the last of all.
LastPlace(part) ==
    CASE part.kind = "none" -> Len(indexes)
      [] part.kind = "int" -> part.num
      [] OTHER -> FirstNamed(part.name)

\* C19: a slice whose stop is a name ends with the first item of that name
\* (whatever the case), that item included; a slice whose stop is an integer
\* ends just before that index, and one without a stop goes through the
\* last item; a slice without a start begins at index 0, one whose start
\* is a name at the first item of that name.
C19_NamedSliceBounds ==
    (/\ item.kind = "slice"
     /\ Resolvable(item.start)
     /\ Resolvable(item.stop)
     /\ FirstPlace(item.start) <= LastPlace(item.stop) + 1) =>
        /\ item.exc = None
        /\ item.result = [k \in 1..(LastPlace(item.stop) - FirstPlace(item.start) + 1) |->
                             indexes[FirstPlace(item.start) + k - 1]]

\* The slice [:"A"] of B, a, A returned B and a: from index 0 through the
\* first item named A whatever the case.
C19_Witness ==
    /\ indexes = <<"B", "a", "A">>
    /\ item.kind = "slice"
    /\ item.start = Absent
    /\ item.stop = AtName("A")
    /\ item.result = <<"B", "a">>

\* C20: a slice whose resolved end index (the index of the stop name, or
\* the stop integer) is smaller than its resolved start index raises
\* IndexError instead of returning a result.
C20_ReversedSliceRejected ==
    (/\ item.kind = "slice"
     /\ Resolvable(item.start)
     /\ Resolvable(item.stop)
     /\ item.stop.kind # "none"
     /\ LastPlace(item.stop) - (IF item.stop.kind = "name" THEN 1 ELSE 0)
            < FirstPlace(item.start) - 1) =>
        item.exc = "IndexError"

\* C21: a phase registered without a stop_on_fail keyword gets the value
\* the runner's flag has at that moment; no later step, an assignment to the
\* runner's flag included, changes the flag of a registered phase; and a
\* failed phase whose flag is false does not end the run, whatever the
\* runner's flag is by then.
C21_FlagTakenAtRegistration ==
    [][/\ \A n \in Names :
            (AddPhase(n, "absent") /\ Len(phases') = Len(phases) + 1) =>
                phases'[Len(phases')].stop_on_fail = stop_on_fail
       /\ \A k \in DOMAIN phases :
            /\ k \in DOMAIN phases'
            /\ phases'[k].stop_on_fail = phases[k].stop_on_fail
       /\ (/\ pc = "phases"
           /\ executed' # executed
           /\ success' # "True"
           /\ ~phases[Last(executed')].stop_on_fail) =>
              /\ pc' # "idle"
              /\ ret' # "False"
      ]_vars

\* Under a runner flag that is true by now, a phase registered while it was
\* false has failed and the run goes on; another phase, registered while
\* the flag was true, has kept its own.
C21_Witness ==
    /\ stop_on_fail
    /\ pc # "idle"
    /\ executed # <<>>
    /\ success = "False"
    /\ ~phases[Last(executed)].stop_on_fail
    /\ \E k \in DOMAIN phases : phases[k].stop_on_fail

====
